---- MODULE Spec2Model ----
(***************************************************************************)
(* LISSerialInterface (lis-serial-interface.js, kept as src/unnamed/       *)
(* part_000): the character-level framing state machine (_onData,          *)
(* _consumeChar), the hand-over of a complete message                      *)
(* (_handleCompleteMessage) and the tagged-section decoder (parseProtocol).*)
(*                                                                         *)
(* Text is a sequence of one-character strings, so that substring search,  *)
(* split, trim and the regular expressions are computed and not assumed.   *)
(* The alphabet of the inputs is: the delimiter and tag characters, the    *)
(* decimal digits, "+", "-", ".", "|", blank, tab, CR, LF and the letters of*)
(* the analyte names.  parseFloat and Number are modelled for that alphabet*)
(* (no exponent part, no "Infinity", no 0x/0o/0b literal occurs in it).    *)
(***************************************************************************)
EXTENDS Integers, Sequences, FiniteSets, TLC

(***************************************************************************)
(* Bounds of the model.                                                    *)
(* BufferCeiling stands for the literal 100_000 of _consumeChar; the model *)
(* scales it down and every formula is stated relative to it.              *)
(***************************************************************************)
BufferCeiling == 24
MaxChunk == 14
MaxPieces == 3

(***************************************************************************)
(* Text helpers (String.prototype.includes / indexOf / split / trim)       *)
(***************************************************************************)
START == <<"<", "S", "E", "N", "D", ">">>
END == <<"<", "/", "S", "E", "N", "D", ">">>

Min(S) == CHOOSE x \in S : \A y \in S : x <= y
Max(S) == CHOOSE x \in S : \A y \in S : x >= y

\* The positions at which pat occurs in s.
Occ(s, pat) ==
  {i \in 1..(Len(s) - Len(pat) + 1) : SubSeq(s, i, i + Len(pat) - 1) = pat}

includes(s, pat) == Occ(s, pat) # {}

\* s.slice(from - 1): the rest of s from position from (1-based) on.
Rest(s, from) == SubSeq(s, from, Len(s))

\* \s of the regular expressions and the white space of trim(), parseFloat and Number.
IsSpace(c) == c \in {" ", "\t", "\n", "\r"}

\* s without the white space at its start / at its end.
trimStart(s) ==
  LET solid == {i \in 1..Len(s) : ~IsSpace(s[i])}
  IN  IF solid = {} THEN <<>> ELSE Rest(s, Min(solid))

trimEnd(s) ==
  LET solid == {i \in 1..Len(s) : ~IsSpace(s[i])}
  IN  IF solid = {} THEN <<>> ELSE SubSeq(s, 1, Max(solid))

trim(s) == trimEnd(trimStart(s))

\* s.split(sep) for a one-character separator: always at least one part.
RECURSIVE split(_, _)
split(s, sep) ==
  LET at == {i \in 1..Len(s) : s[i] = sep}
  IN  IF at = {} THEN <<s>>
      ELSE <<SubSeq(s, 1, Min(at) - 1)>> \o split(Rest(s, Min(at) + 1), sep)

(***************************************************************************)
(* JavaScript values: undefined, strings, numbers                          *)
(***************************************************************************)
Undefined == [type |-> "undefined"]
Str(s) == [type |-> "string", s |-> s]

\* parts[i - 1]: an element of an array, undefined past its end.
At(parts, i) == IF i <= Len(parts) THEN Str(parts[i]) ELSE Undefined

\* A number is NaN or the decimal m / 10^e, kept without trailing zeros.
NaN == [nan |-> TRUE]

RECURSIVE Decimal(_, _)
Decimal(m, e) ==
  IF e > 0 /\ m % 10 = 0 THEN Decimal(m \div 10, e - 1)
  ELSE [nan |-> FALSE, m |-> m, e |-> e]

RECURSIVE Pow10(_)
Pow10(n) == IF n = 0 THEN 1 ELSE 10 * Pow10(n - 1)

\* a < b of JavaScript: false as soon as one side is NaN.
Lt(a, b) == ~a.nan /\ ~b.nan /\ a.m * Pow10(b.e) < b.m * Pow10(a.e)

Digits == {"0", "1", "2", "3", "4", "5", "6", "7", "8", "9"}

DigitVal(c) ==
  CASE c = "0" -> 0 [] c = "1" -> 1 [] c = "2" -> 2 [] c = "3" -> 3
    [] c = "4" -> 4 [] c = "5" -> 5 [] c = "6" -> 6 [] c = "7" -> 7
    [] c = "8" -> 8 [] c = "9" -> 9

\* The longest prefix of s made of decimal digits.
RECURSIVE DigitPrefix(_)
DigitPrefix(s) ==
  IF s # <<>> /\ s[1] \in Digits THEN <<s[1]>> \o DigitPrefix(Tail(s)) ELSE <<>>

RECURSIVE DigitsToInt(_)
DigitsToInt(ds) ==
  IF ds = <<>> THEN 0
  ELSE 10 * DigitsToInt(SubSeq(ds, 1, Len(ds) - 1)) + DigitVal(ds[Len(ds)])

\* The longest prefix of s that is a signed decimal literal:
\* [sign] digits [. digits], with at least one digit.  used is its length,
\* 0 when s starts with no such literal.
DecimalPrefix(s) ==
  LET signed == s # <<>> /\ s[1] \in {"+", "-"}
      body == IF signed THEN Tail(s) ELSE s
      int == DigitPrefix(body)
      afterInt == Rest(body, Len(int) + 1)
      dotted == afterInt # <<>> /\ afterInt[1] = "."
      frac == IF dotted THEN DigitPrefix(Tail(afterInt)) ELSE <<>>
      mag == DigitsToInt(int \o frac)
  IN  IF int = <<>> /\ frac = <<>> THEN [used |-> 0, num |-> NaN]
      ELSE [used |-> (IF signed THEN 1 ELSE 0) + Len(int)
                     + (IF dotted THEN 1 + Len(frac) ELSE 0),
            num |-> Decimal(IF signed /\ s[1] = "-" THEN 0 - mag ELSE mag, Len(frac))]

\* parseFloat(s): leading white space skipped, then the longest numeric
\* prefix; NaN when there is none.
parseFloat(s) == DecimalPrefix(trimStart(s)).num

\* Number(v): undefined is NaN; a string is trimmed, the empty string is 0,
\* and otherwise the whole string has to be a numeric literal.
Number(v) ==
  IF v = Undefined THEN NaN
  ELSE LET t == trim(v.s)
           d == DecimalPrefix(t)
       IN  IF t = <<>> THEN Decimal(0, 0)
           ELSE IF d.used = Len(t) THEN d.num ELSE NaN

(***************************************************************************)
(* parseProtocol                                                           *)
(***************************************************************************)
\* raw.replace(/\r\n/g, "\n"): every CR that an LF follows is dropped.
replaceCrLf(s) ==
  LET kept == SelectSeq([i \in 1..Len(s) |-> i],
                        LAMBDA i : ~(s[i] = "\r" /\ i < Len(s) /\ s[i + 1] = "\n"))
  IN  [k \in 1..Len(kept) |-> s[kept[k]]]

\* .replace(/\r/g, "\n")
replaceCr(s) == [i \in 1..Len(s) |-> IF s[i] = "\r" THEN "\n" ELSE s[i]]

\* A failed match is null; a match carries its first capture group.
NoMatch == [matched |-> FALSE]
Match(group) == [matched |-> TRUE, group |-> group]

\* clean.match(/<M>(.*?)<\/M>/): the leftmost <M> that is followed, before
\* any line break, by </M>; the group is the text up to the first </M>.
matchLine(clean, open, close) ==
  LET closeAfter(i) == {j \in Occ(clean, close) : j >= i + Len(open)}
      ok(i) == /\ closeAfter(i) # {}
               /\ \A k \in (i + Len(open))..(Min(closeAfter(i)) - 1) : clean[k] # "\n"
      starts == {i \in Occ(clean, open) : ok(i)}
  IN  IF starts = {} THEN NoMatch
      ELSE LET i == Min(starts)
           IN  Match(SubSeq(clean, i + Len(open), Min(closeAfter(i)) - 1))

\* clean.match(/<I>\s*([\s\S]*?)\s*<\/I>/), and the same with R: the
\* leftmost opening tag that has a closing tag after it; the group starts
\* after the white space that follows the opening tag and ends before the
\* white space that precedes the first closing tag.
matchBlock(clean, open, close) ==
  LET closeAfter(i) == {j \in Occ(clean, close) : j >= i + Len(open)}
      starts == {i \in Occ(clean, open) : closeAfter(i) # {}}
  IN  IF starts = {} THEN NoMatch
      ELSE LET i == Min(starts)
               q == Min(closeAfter(i))
               p == Min({k \in (i + Len(open))..q : ~IsSpace(clean[k])})
               e == Min({k \in p..q : \A n \in k..(q - 1) : IsSpace(clean[n])})
           IN  Match(SubSeq(clean, p, e - 1))

Tag(c) == <<"<", c, ">">>
EndTag(c) == <<"<", "/", c, ">">>

\* The empty object {}.
EmptyObject == [k \in {} |-> Undefined]

\* obj[key] = value
Put(obj, key, value) ==
  [k \in DOMAIN obj \cup {key} |-> IF k = key THEN value ELSE obj[k]]

\* if (m) { const [model, serial] = m[1].split("|"); ... }
machineInfoOf(clean) ==
  LET m == matchLine(clean, Tag("M"), EndTag("M"))
  IN  IF ~m.matched THEN EmptyObject
      ELSE LET fields == split(m.group, "|")
               model == At(fields, 1)
               serial == At(fields, 2)
           IN  [model |-> Str(trim(model.s)),
                serialNumber |-> IF serial = Undefined THEN Undefined
                                 ELSE Str(trim(serial.s))]

typeMap ==
  [code \in 0..3 |-> CASE code = 0 -> "whole_blood"
                       [] code = 1 -> "quality_control"
                       [] code = 2 -> "calibration"
                       [] code = 3 -> "diluted"]

\* typeMap[n] || "unknown": the property named by the number's text; only
\* the integers 0..3 name a property of typeMap.
sampleTypeOf(n) ==
  IF ~n.nan /\ n.e = 0 /\ n.m \in DOMAIN typeMap THEN typeMap[n.m] ELSE "unknown"

\* if (i) { const parts = i[1].trim().split("|"); ... }
sampleInfoOf(clean) ==
  LET i == matchBlock(clean, Tag("I"), EndTag("I"))
  IN  IF ~i.matched THEN EmptyObject
      ELSE LET parts == split(trim(i.group), "|")
           IN  [recordType |-> At(parts, 1),
                analysisTime |-> At(parts, 2),
                sampleId |-> At(parts, 3),
                samplePosition |-> At(parts, 4),
                sampleTypeCode |-> Number(At(parts, 5)),
                sampleType |-> sampleTypeOf(Number(At(parts, 5)))]

\* A variant that rejects a value that is not a number.
resultLine_strict(results, line) ==
  LET fields == split(line, "|")
      key == At(fields, 1)
      val == At(fields, 2)
  IN  IF key.s = <<>> \/ val = Undefined \/ val = Str(<<>>) \/ parseFloat(val.s).nan
      THEN results
      ELSE Put(results, key.s, [value |-> parseFloat(val.s), unit |-> "%"])

\* The body of the forEach over the lines of the results section.
resultLine(results, line) ==
  LET fields == split(line, "|")
      key == At(fields, 1)
      val == At(fields, 2)
  IN  IF key.s = <<>> \/ val = Undefined \/ val = Str(<<>>) THEN results
      ELSE Put(results, key.s, [value |-> parseFloat(val.s), unit |-> "%"])

RECURSIVE forEachLine(_, _)
forEachLine(results, lines) ==
  IF lines = <<>> THEN results
  ELSE forEachLine(resultLine(results, Head(lines)), Tail(lines))

\* r[1].split("\n").map((l) => l.trim()).filter(Boolean).forEach(...)
resultsOf(clean) ==
  LET r == matchBlock(clean, Tag("R"), EndTag("R"))
  IN  IF ~r.matched THEN EmptyObject
      ELSE LET all == split(r.group, "\n")
               trimmed == [n \in 1..Len(all) |-> trim(all[n])]
           IN  forEachLine(EmptyObject, SelectSeq(trimmed, LAMBDA l : l # <<>>))

HbA1c == <<"H", "b", "A", "1", "c">>

\* A variant with v <= 5.7 for the first range.
interpret_inclusive(v) ==
  IF Lt(v, Decimal(57, 1)) \/ v = Decimal(57, 1) THEN "Normal"
  ELSE IF Lt(v, Decimal(65, 1)) THEN "Prediabetes" ELSE "Diabetes"

\* v < 5.7 ? "Normal" : v < 6.5 ? "Prediabetes" : "Diabetes"
interpret(v) ==
  IF Lt(v, Decimal(57, 1)) THEN "Normal"
  ELSE IF Lt(v, Decimal(65, 1)) THEN "Prediabetes" ELSE "Diabetes"

\* if (result.results.HbA1c) { ...interpretation = ... }
withInterpretation(results) ==
  IF HbA1c \in DOMAIN results
  THEN Put(results, HbA1c,
           [value |-> results[HbA1c].value,
            unit |-> results[HbA1c].unit,
            interpretation |-> interpret(results[HbA1c].value)])
  ELSE results

\* A variant that looks for <I> after </M> only and for <R> after </I> only.
parseProtocol_inSequence(raw) ==
  LET clean == replaceCr(replaceCrLf(raw))
      after(text, close) ==
        IF includes(text, close) THEN Rest(text, Min(Occ(text, close)) + Len(close))
        ELSE text
      afterM == after(clean, EndTag("M"))
      afterI == after(afterM, EndTag("I"))
  IN  [machineInfo |-> machineInfoOf(clean),
       sampleInfo |-> sampleInfoOf(afterM),
       results |-> withInterpretation(resultsOf(afterI)),
       raw |-> raw]

\* parseProtocol(raw).  receivedAt, the wall-clock time of the call, is left
\* out of the record.
parseProtocol(raw) ==
  LET clean == replaceCr(replaceCrLf(raw))
  IN  [machineInfo |-> machineInfoOf(clean),
       sampleInfo |-> sampleInfoOf(clean),
       results |-> withInterpretation(resultsOf(clean)),
       raw |-> raw]

(***************************************************************************)
(* The framer and the hand-over of complete messages                       *)
(***************************************************************************)
VARIABLES
  state,          \* this.state: "IDLE" or "RECEIVING"
  messageBuffer,  \* this.messageBuffer
  stream,         \* the text the transport delivers, in arrival order
  pos,            \* how many characters of stream have been delivered
  notifications,  \* what the listeners of "results" and "error" received, in order
  completed,      \* history: the messages handed to _handleCompleteMessage, each with
                  \* the framer's state and buffer at the call
  starts,         \* history: the positions at which a start delimiter was recognised
  overflows,      \* history: the positions at which the overflow protection fired
  burst,          \* history: some chunk brought more than one notification
  port,           \* this.port: "none", "opening", "open" or "closed"
  relayed,        \* history: the transport events passed on to the listeners, each
                  \* with whether the buffer held text at that moment
  input           \* the sections the decoder's input was written from

vars ==
  <<state, messageBuffer, stream, pos, notifications, completed, starts, overflows,
    burst, port, relayed, input>>

\* The instance with its history, as the operators below pass it along.
\* consumed counts the characters given to _consumeChar so far.
Instance ==
  [state |-> state, messageBuffer |-> messageBuffer, consumed |-> pos,
   notifications |-> notifications, completed |-> completed,
   starts |-> starts, overflows |-> overflows, relayed |-> relayed]

\* this.emit(event, data) with the listeners of simple-listener.js, which
\* print what they are given and return.
emit(self, event, data) ==
  [self EXCEPT !.notifications =
     Append(@, [event |-> event, data |-> data, at |-> self.consumed])]

\* The try block of _handleCompleteMessage: parseProtocol contains no throw
\* and applies only string, array and object operations to a string, so the
\* call returns.
\* A variant that dereferences the match of <I> without testing it.
tryParse_unguarded(message) ==
  [threw |-> ~matchBlock(replaceCr(replaceCrLf(message)), Tag("I"), EndTag("I")).matched,
   value |-> parseProtocol(message)]

tryParse(message) == [threw |-> FALSE, value |-> parseProtocol(message)]

\* A variant without the else: the error is signalled after the results too.
_handleCompleteMessage_twice(self, message) ==
  LET noted == [self EXCEPT !.completed =
                  Append(@, [message |-> message, at |-> self.consumed,
                          state |-> self.state, buffer |-> self.messageBuffer])]
      try == tryParse(message)
  IN  emit(IF ~try.threw THEN emit(noted, "results", try.value) ELSE noted,
           "error", "err")

_handleCompleteMessage(self, message) ==
  LET noted == [self EXCEPT !.completed =
                  Append(@, [message |-> message, at |-> self.consumed,
                          state |-> self.state, buffer |-> self.messageBuffer])]
      try == tryParse(message)
  IN  IF ~try.threw THEN emit(noted, "results", try.value)
      ELSE emit(noted, "error", "err")

\* A variant that keeps what precedes the start delimiter in the buffer.
_consumeChar_keeping(self, char) ==
  LET appended == [self EXCEPT !.messageBuffer = Append(@, char),
                               !.consumed = @ + 1]
  IN  IF appended.state = "IDLE" /\ includes(appended.messageBuffer, START)
      THEN [appended EXCEPT !.state = "RECEIVING",
                            !.starts = @ \cup {appended.consumed}]
      ELSE LET ended ==
                 IF appended.state = "RECEIVING" /\ includes(appended.messageBuffer, END)
                 THEN _handleCompleteMessage(
                        [appended EXCEPT !.state = "IDLE", !.messageBuffer = <<>>],
                        appended.messageBuffer)
                 ELSE appended
           IN  IF Len(ended.messageBuffer) > BufferCeiling
               THEN [ended EXCEPT !.state = "IDLE",
                                  !.messageBuffer = <<>>,
                                  !.overflows = @ \cup {[at |-> ended.consumed,
                                                         in |-> ended.state]}]
               ELSE ended

\* A variant whose overflow protection clears the buffer and leaves the state.
_consumeChar_stateless(self, char) ==
  LET appended == [self EXCEPT !.messageBuffer = Append(@, char),
                               !.consumed = @ + 1]
  IN  IF appended.state = "IDLE" /\ includes(appended.messageBuffer, START)
      THEN [appended EXCEPT !.state = "RECEIVING",
                            !.messageBuffer = START,
                            !.starts = @ \cup {appended.consumed}]
      ELSE LET ended ==
                 IF appended.state = "RECEIVING" /\ includes(appended.messageBuffer, END)
                 THEN _handleCompleteMessage(
                        [appended EXCEPT !.state = "IDLE", !.messageBuffer = <<>>],
                        appended.messageBuffer)
                 ELSE appended
           IN  IF Len(ended.messageBuffer) > BufferCeiling
               THEN [ended EXCEPT !.messageBuffer = <<>>,
                                  !.overflows = @ \cup {[at |-> ended.consumed,
                                                         in |-> ended.state]}]
               ELSE ended

\* A variant that hands the message over before it resets the framer.
_consumeChar_late(self, char) ==
  LET appended == [self EXCEPT !.messageBuffer = Append(@, char),
                               !.consumed = @ + 1]
  IN  IF appended.state = "IDLE" /\ includes(appended.messageBuffer, START)
      THEN [appended EXCEPT !.state = "RECEIVING",
                            !.messageBuffer = START,
                            !.starts = @ \cup {appended.consumed}]
      ELSE LET ended ==
                 IF appended.state = "RECEIVING" /\ includes(appended.messageBuffer, END)
                 THEN [_handleCompleteMessage(appended, appended.messageBuffer)
                         EXCEPT !.state = "IDLE", !.messageBuffer = <<>>]
                 ELSE appended
           IN  IF Len(ended.messageBuffer) > BufferCeiling
               THEN [ended EXCEPT !.state = "IDLE",
                                  !.messageBuffer = <<>>,
                                  !.overflows = @ \cup {[at |-> ended.consumed,
                                                         in |-> ended.state]}]
               ELSE ended

\* A variant whose overflow protection allows one character more.
_consumeChar_slack(self, char) ==
  LET appended == [self EXCEPT !.messageBuffer = Append(@, char),
                               !.consumed = @ + 1]
  IN  IF appended.state = "IDLE" /\ includes(appended.messageBuffer, START)
      THEN [appended EXCEPT !.state = "RECEIVING",
                            !.messageBuffer = START,
                            !.starts = @ \cup {appended.consumed}]
      ELSE LET ended ==
                 IF appended.state = "RECEIVING" /\ includes(appended.messageBuffer, END)
                 THEN _handleCompleteMessage(
                        [appended EXCEPT !.state = "IDLE", !.messageBuffer = <<>>],
                        appended.messageBuffer)
                 ELSE appended
           IN  IF Len(ended.messageBuffer) > BufferCeiling + 1
               THEN [ended EXCEPT !.state = "IDLE",
                                  !.messageBuffer = <<>>,
                                  !.overflows = @ \cup {[at |-> ended.consumed,
                                                         in |-> ended.state]}]
               ELSE ended

\* A variant whose overflow protection watches a message under way only.
_consumeChar_receivingOnly(self, char) ==
  LET appended == [self EXCEPT !.messageBuffer = Append(@, char),
                               !.consumed = @ + 1]
  IN  IF appended.state = "IDLE" /\ includes(appended.messageBuffer, START)
      THEN [appended EXCEPT !.state = "RECEIVING",
                            !.messageBuffer = START,
                            !.starts = @ \cup {appended.consumed}]
      ELSE LET ended ==
                 IF appended.state = "RECEIVING" /\ includes(appended.messageBuffer, END)
                 THEN _handleCompleteMessage(
                        [appended EXCEPT !.state = "IDLE", !.messageBuffer = <<>>],
                        appended.messageBuffer)
                 ELSE appended
           IN  IF ended.state = "RECEIVING" /\ Len(ended.messageBuffer) > BufferCeiling
               THEN [ended EXCEPT !.state = "IDLE",
                                  !.messageBuffer = <<>>,
                                  !.overflows = @ \cup {[at |-> ended.consumed,
                                                         in |-> ended.state]}]
               ELSE ended

\* A variant that takes an end delimiter in either state.
_consumeChar_anyEnd(self, char) ==
  LET appended == [self EXCEPT !.messageBuffer = Append(@, char),
                               !.consumed = @ + 1]
  IN  IF appended.state = "IDLE" /\ includes(appended.messageBuffer, START)
      THEN [appended EXCEPT !.state = "RECEIVING",
                            !.messageBuffer = START,
                            !.starts = @ \cup {appended.consumed}]
      ELSE LET ended ==
                 IF includes(appended.messageBuffer, END)
                 THEN _handleCompleteMessage(
                        [appended EXCEPT !.state = "IDLE", !.messageBuffer = <<>>],
                        appended.messageBuffer)
                 ELSE appended
           IN  IF Len(ended.messageBuffer) > BufferCeiling
               THEN [ended EXCEPT !.state = "IDLE",
                                  !.messageBuffer = <<>>,
                                  !.overflows = @ \cup {[at |-> ended.consumed,
                                                         in |-> ended.state]}]
               ELSE ended

\* A variant that starts over at a start delimiter within a message.
_consumeChar_restarting(self, char) ==
  LET appended == [self EXCEPT !.messageBuffer = Append(@, char),
                               !.consumed = @ + 1]
  IN  IF \/ appended.state = "IDLE" /\ includes(appended.messageBuffer, START)
         \/ appended.state = "RECEIVING" /\ Occ(appended.messageBuffer, START) # {1}
      THEN [appended EXCEPT !.state = "RECEIVING",
                            !.messageBuffer = START,
                            !.starts = @ \cup {appended.consumed}]
      ELSE LET ended ==
                 IF appended.state = "RECEIVING" /\ includes(appended.messageBuffer, END)
                 THEN _handleCompleteMessage(
                        [appended EXCEPT !.state = "IDLE", !.messageBuffer = <<>>],
                        appended.messageBuffer)
                 ELSE appended
           IN  IF Len(ended.messageBuffer) > BufferCeiling
               THEN [ended EXCEPT !.state = "IDLE",
                                  !.messageBuffer = <<>>,
                                  !.overflows = @ \cup {[at |-> ended.consumed,
                                                         in |-> ended.state]}]
               ELSE ended

_consumeChar(self, char) ==
  LET appended == [self EXCEPT !.messageBuffer = Append(@, char),
                               !.consumed = @ + 1]
  IN  IF appended.state = "IDLE" /\ includes(appended.messageBuffer, START)
      THEN [appended EXCEPT !.state = "RECEIVING",
                            !.messageBuffer = START,
                            !.starts = @ \cup {appended.consumed}]
      ELSE LET ended ==
                 IF appended.state = "RECEIVING" /\ includes(appended.messageBuffer, END)
                 THEN _handleCompleteMessage(
                        [appended EXCEPT !.state = "IDLE", !.messageBuffer = <<>>],
                        appended.messageBuffer)
                 ELSE appended
           IN  IF Len(ended.messageBuffer) > BufferCeiling
               THEN [ended EXCEPT !.state = "IDLE",
                                  !.messageBuffer = <<>>,
                                  !.overflows = @ \cup {[at |-> ended.consumed,
                                                         in |-> ended.state]}]
               ELSE ended

\* for (const char of ascii) this._consumeChar(char)
RECURSIVE forOf(_, _)
forOf(self, ascii) ==
  IF ascii = <<>> THEN self ELSE forOf(_consumeChar(self, Head(ascii)), Tail(ascii))

\* A variant that starts every chunk with an empty buffer.
_onData_resetting(self, ascii) == forOf([self EXCEPT !.messageBuffer = <<>>], ascii)

\* A variant that hands the notifications of a chunk over after its loop.
_onData_deferring(self, ascii) ==
  LET after == forOf(self, ascii)
  IN  [after EXCEPT !.notifications =
         [i \in 1..Len(@) |->
            IF i <= Len(self.notifications) THEN @[i]
            ELSE [@[i] EXCEPT !.at = after.consumed]]]

\* _onData(data); ascii is the text of the chunk.  lastByteAt and the two
\* log lines are written and never read.
_onData(self, ascii) == forOf(self, ascii)

\* The instance after a step becomes the next state.
Becomes(self) ==
  /\ state' = self.state
  /\ messageBuffer' = self.messageBuffer
  /\ notifications' = self.notifications
  /\ completed' = self.completed
  /\ starts' = self.starts
  /\ overflows' = self.overflows
  /\ relayed' = self.relayed

(***************************************************************************)
(* The streams of the framer's specification: up to MaxPieces pieces, one  *)
(* after another.                                                          *)
(***************************************************************************)
Fill(n) == [i \in 1..n |-> "z"]

SmallMessage ==
  START \o <<"<", "R", ">", "k", "|", "7", "<", "/", "R", ">">> \o END

\* The shortest message of all.
TinyMessage == START \o END

Pieces ==
  {START, END, TinyMessage, SmallMessage,
   Fill(BufferCeiling - 12), Fill(BufferCeiling - 5), Fill(BufferCeiling - 3)}

RECURSIVE Concat(_)
Concat(ps) == IF ps = <<>> THEN <<>> ELSE Head(ps) \o Concat(Tail(ps))

Streams == {Concat(ps) : ps \in UNION {[1..n -> Pieces] : n \in 1..MaxPieces}}

\* The constructor: IDLE with an empty buffer; nothing delivered yet.
Fresh ==
  /\ state = "IDLE"
  /\ messageBuffer = <<>>
  /\ pos = 0
  /\ notifications = <<>>
  /\ completed = <<>>
  /\ starts = {}
  /\ overflows = {}
  /\ burst = FALSE
  /\ relayed = {}

NoSections == [M |-> <<>>, I |-> <<>>, R |-> <<>>]

\* The framer's specification starts with the port open and no byte received.
Init == Fresh /\ port = "open" /\ stream \in Streams /\ input = NoSections

\* The port's "data" event: the next chunk of the stream, of any size up to
\* MaxChunk, goes through _onData.
OnData ==
  \E n \in 1..MaxChunk :
    /\ pos + n <= Len(stream)
    /\ Becomes(_onData(Instance, SubSeq(stream, pos + 1, pos + n)))
    /\ burst' = (burst \/ Len(notifications') >= Len(notifications) + 2)
    /\ pos' = pos + n
    /\ UNCHANGED <<stream, port, input>>

Next == OnData

Spec == Init /\ [][Next]_vars

(***************************************************************************)
(* The transport's specification: start() creates and opens the port, the  *)
(* port reports its opening, its errors and its closing, and bytes arrive  *)
(* while it is open.  A closed port can be started again on the instance.  *)
(***************************************************************************)
\* this.emit of a transport event: the listeners print it and return.
relay(self, event) ==
  [self EXCEPT !.relayed = @ \cup {[event |-> event, held |-> self.messageBuffer # <<>>]}]

\* The callback of port.open.
openCallback(self, err) ==
  IF err THEN relay(self, "error") ELSE relay(self, "connected")

\* The port's "error" handler.
onError(self) == relay(self, "error")

\* A variant that drops what it holds when the port closes.
onClose_clearing(self) ==
  [relay(self, "disconnected") EXCEPT !.state = "IDLE", !.messageBuffer = <<>>]

\* The port's "close" handler.
onClose(self) == relay(self, "disconnected")

LifecycleStreams ==
  {SmallMessage, START \o Fill(BufferCeiling - 12) \o END, TinyMessage \o TinyMessage}

InitLifecycle ==
  Fresh /\ port = "none" /\ stream \in LifecycleStreams /\ input = NoSections

\* start(): a new port, being opened.
Start ==
  /\ port \in {"none", "closed"}
  /\ port' = "opening"
  /\ UNCHANGED <<state, messageBuffer, stream, pos, notifications, completed, starts,
                 overflows, burst, relayed, input>>

\* The opening succeeds or fails.
Opened ==
  /\ port = "opening"
  /\ \E err \in BOOLEAN :
       /\ Becomes(openCallback(Instance, err))
       /\ port' = IF err THEN "closed" ELSE "open"
  /\ UNCHANGED <<stream, pos, burst, input>>

\* The open port reports an error.
PortError ==
  /\ port = "open"
  /\ Becomes(onError(Instance))
  /\ UNCHANGED <<stream, pos, burst, port, input>>

\* The port closes, by close() or by itself.
PortClose ==
  /\ port = "open"
  /\ Becomes(onClose(Instance))
  /\ port' = "closed"
  /\ UNCHANGED <<stream, pos, burst, input>>

\* Bytes arrive on the open port.
PortData == port = "open" /\ OnData

NextLifecycle == Start \/ Opened \/ PortError \/ PortClose \/ PortData

SpecLifecycle == InitLifecycle /\ [][NextLifecycle]_vars

(***************************************************************************)
(* The decoder's specification: _handleCompleteMessage is called with one  *)
(* complete message in the wire format of the analyzer.  A section is its  *)
(* text with its tags; the empty text is an omitted section.               *)
(***************************************************************************)
MaxCodeLen == 2
MaxValueLen == 4

\* All texts over chars of at most n characters.
Texts(chars, n) == UNION {[1..k -> chars] : k \in 0..n}

LF == <<"\n">>

MachineSections ==
  {Tag("M") \o body \o EndTag("M") :
     body \in {<<"G", "Q", "|", "S", "N", "1">>,
               <<" ", "G", "Q", " ", "|", " ", "S", "N", "1", " ">>,
               <<"G", "Q">>,
               <<"\n", "G", "Q", "|", "S", "N", "1", "\n">>}}

SampleHead == <<"0", "|", "t", "|", "S", "1", "|", "A", "1">>

\* The sample section whose fifth field is code.
SampleSection(code) ==
  Tag("I") \o LF \o SampleHead \o <<"|">> \o code \o LF \o EndTag("I")

\* The sample section with four fields only.
ShortSampleSection == Tag("I") \o LF \o SampleHead \o LF \o EndTag("I")

CodeTexts == Texts({"0", "1", "2", "3", "4", ".", "z"}, MaxCodeLen)

SampleSections == {SampleSection(code) : code \in CodeTexts} \cup {ShortSampleSection}

ResultsSection(lines) == Tag("R") \o LF \o lines \o LF \o EndTag("R")

Line(key, text) == key \o <<"|">> \o text

ValueTexts ==
  Texts({"5", "6", "7", ".", "z"}, MaxValueLen)
    \cup {<<"-", "1">>, <<"+", "6", ".", "5">>, <<" ", "5", ".", "7">>, <<"5", ".", "6", "9", "9">>, <<"6", ".", "4", "9", "9">>}

OtherKey == <<"k">>

ResultsSections ==
  {ResultsSection(Line(HbA1c, v)) : v \in ValueTexts}
    \cup {ResultsSection(Line(OtherKey, v)) : v \in {<<"7">>, <<"z">>}}
    \cup {ResultsSection(Line(OtherKey, <<"7">>) \o LF \o LF \o Line(HbA1c, v)) :
            v \in {<<"5", ".", "7">>, <<"z">>}}
    \cup {ResultsSection(Line(HbA1c, <<"7">>) \o <<"\r", "\n">> \o Line(OtherKey, <<"z">>)),
          ResultsSection(HbA1c), ResultsSection(<<"|">> \o <<"7">>)}

UsualMachine == Tag("M") \o <<"G", "Q", "|", "S", "N", "1">> \o EndTag("M")
UsualSample == SampleSection(<<"1">>)
UsualResults == ResultsSection(Line(HbA1c, <<"5", ".", "4">>))

\* One section varies over all its texts while the other two are the usual ones.
SectionTriples ==
  {[M |-> m, I |-> UsualSample, R |-> UsualResults] : m \in MachineSections}
    \cup {[M |-> UsualMachine, I |-> i, R |-> UsualResults] : i \in SampleSections}
    \cup {[M |-> UsualMachine, I |-> UsualSample, R |-> r] : r \in ResultsSections}

SectionNames == {"M", "I", "R"}

\* The sections of t without the omitted ones.
Omit(t, omitted) == [n \in SectionNames |-> IF n \in omitted THEN <<>> ELSE t[n]]

\* A section on a line of its own; nothing for an omitted one.
SectionLine(text) == IF text = <<>> THEN <<>> ELSE text \o LF

\* <SEND>, the sections of t line by line in the given order, </SEND>.
WireIn(t, order) ==
  START \o LF \o SectionLine(t[order[1]]) \o SectionLine(t[order[2]])
        \o SectionLine(t[order[3]]) \o END

\* The wire format: the sections in the order M, I, R.
Wire(t) == WireIn(t, <<"M", "I", "R">>)

\* The orders in which three sections can be sent.
Orders == {o \in [1..3 -> SectionNames] : \A n \in SectionNames : \E k \in 1..3 : o[k] = n}

\* The sections that are sent in every order.
RearrangedTriples ==
  {[M |-> m, I |-> i, R |-> r] :
     m \in MachineSections,
     i \in {UsualSample, ShortSampleSection},
     r \in {UsualResults,
            ResultsSection(Line(OtherKey, <<"7">>) \o LF \o LF \o Line(HbA1c, <<"z">>))}}

\* The usual sections with spaces, tabs and line breaks after the opening
\* tags and before the closing tags; the machine section stays on one line.
Blanks == <<" ", "\t">>

PaddedTriples ==
  {[M |-> Tag("M") \o Blanks \o <<"G", "Q", "|", "S", "N", "1">> \o Blanks \o EndTag("M"),
    I |-> Tag("I") \o Blanks \o LF \o Blanks \o SampleHead \o <<"|", "1">>
            \o Blanks \o LF \o Blanks \o EndTag("I"),
    R |-> Tag("R") \o Blanks \o LF \o Blanks \o Line(HbA1c, <<"5", ".", "4">>)
            \o Blanks \o LF \o Blanks \o EndTag("R")]}

DecodeInputs ==
  {Omit(t, o) : t \in SectionTriples \cup RearrangedTriples \cup PaddedTriples,
                o \in SUBSET SectionNames}

OrdersOf(t) ==
  IF \E r \in RearrangedTriples, o \in SUBSET SectionNames : t = Omit(r, o)
  THEN Orders ELSE {<<"M", "I", "R">>}

InitDecode ==
  /\ Fresh
  /\ port = "none"
  /\ input \in DecodeInputs
  /\ stream \in {WireIn(input, order) : order \in OrdersOf(input)}

\* The framer hands the complete message over.
HandleCompleteMessage ==
  /\ completed = <<>>
  /\ Becomes(_handleCompleteMessage(Instance, stream))
  /\ UNCHANGED <<stream, pos, burst, port, input>>

NextDecode == HandleCompleteMessage

SpecDecode == InitDecode /\ [][NextDecode]_vars

\* The record the listener of "results" received for the decoder's input.
Decoded == notifications[1].data

(***************************************************************************)
(* Properties of the framer (specification Spec)                           *)
(***************************************************************************)
\* The messages handed over so far, in order.
Messages == [i \in 1..Len(completed) |-> completed[i].message]

\* The whole stream has been delivered.
Delivered == pos = Len(stream)

\* One logical message of the wire format: <SEND> first, </SEND> last and
\* nowhere before.
IsWireMessage(s) ==
  /\ Len(s) >= Len(START) + Len(END)
  /\ SubSeq(s, 1, Len(START)) = START
  /\ Occ(s, END) = {Len(s) - Len(END) + 1}

\* Where the i-th complete message begins in the stream.
From(i) == completed[i].at - Len(completed[i].message) + 1

\* C1 as stated: whatever the chunks, a stream that is one logical message
\* of any length is emitted as exactly one complete message, equal to it.
C1_AnyLength ==
  (IsWireMessage(stream) /\ Delivered) => Messages = <<stream>>

\* C1 as amended: whatever the chunks, a stream that is one logical message
\* of at most BufferCeiling + 1 characters yields no message before its
\* last character and then exactly one, equal to the unsplit text.
C1_Chunked ==
  (IsWireMessage(stream) /\ Len(stream) <= BufferCeiling + 1)
    => Messages = IF Delivered THEN <<stream>> ELSE <<>>

C1_Witness ==
  /\ IsWireMessage(stream)
  /\ Len(stream) = BufferCeiling + 1
  /\ Delivered
  /\ Messages = <<stream>>

\* C2: what precedes the first <SEND> is in no emitted message: the buffer
\* is exactly <SEND> when the start delimiter has just been recognised, and
\* every emitted message is the part of the stream that starts with a
\* <SEND> at or after the first one and ends where it was emitted.
C2_LeadingExcluded ==
  /\ pos \in starts => (state = "RECEIVING" /\ messageBuffer = START)
  /\ \A i \in 1..Len(completed) :
       /\ From(i) >= Min(Occ(stream, START))
       /\ completed[i].message = SubSeq(stream, From(i), completed[i].at)
       /\ SubSeq(completed[i].message, 1, Len(START)) = START

C2_Witness ==
  /\ Occ(stream, START) # {}
  /\ Min(Occ(stream, START)) > 1
  /\ completed # <<>>
  /\ From(1) = Min(Occ(stream, START))

\* The overflows that ended a message under way.
RunawayOverflows == {o \in overflows : o.in = "RECEIVING"}

\* The start delimiter of the message that overflow o ended.
StartBefore(o) == Max({p \in starts : p <= o.at}) - Len(START) + 1

\* The well-formed messages that the stream holds right after position p.
MessagesAfter(p) ==
  {n \in 1..(Len(stream) - p) :
     /\ n <= BufferCeiling + 1
     /\ IsWireMessage(SubSeq(stream, p + 1, p + n))}

C9_OneNotification ==
  /\ Len(notifications) = Len(completed)
  /\ \A i \in 1..Len(completed) :
       LET try == tryParse(completed[i].message)
       IN  /\ notifications[i].event = IF try.threw THEN "error" ELSE "results"
           /\ ~try.threw => notifications[i].data.raw = completed[i].message

C9_Witness ==
  /\ Len(completed) >= 2
  /\ Len(notifications) = Len(completed)
  /\ \A i \in 1..Len(notifications) : notifications[i].event = "results"

\* C10: the notification of a message is delivered while the last
\* character of its end delimiter is consumed, before any later character,
\* and so the notifications come in the order of the stream.
C10_StreamOrder ==
  /\ Len(notifications) = Len(completed)
  /\ \A i \in 1..Len(notifications) :
       /\ notifications[i].at = completed[i].at
       /\ notifications[i].at >= Len(END)
       /\ SubSeq(stream, notifications[i].at - Len(END) + 1, notifications[i].at) = END
       /\ i > 1 => notifications[i - 1].at < notifications[i].at

C10_Witness ==
  /\ burst
  /\ Len(notifications) >= 2
  /\ notifications[1].at < notifications[2].at
  /\ pos > notifications[2].at

(***************************************************************************)
(* Properties of the decoder (specification SpecDecode)                    *)
(***************************************************************************)
\* The message has been handed over.
Handled == completed # <<>>

\* v < n / 10, computed on the decimal itself.
BelowTenths(v, n) == v.m * 10 < n * Pow10(v.e)

\* The results section with the one line HbA1c|text.
HbA1cSection(text) == ResultsSection(Line(HbA1c, text))

InterpretationOf(text) ==
  IF input.R = HbA1cSection(text) THEN Decoded.results[HbA1c].interpretation
  ELSE "none"

\* C4: a numeric HbA1c value carries exactly one interpretation: Normal
\* below 5.7, Prediabetes from 5.7 to below 6.5, Diabetes from 6.5 on.
C4_Ranges ==
  Handled =>
    /\ (HbA1c \in DOMAIN Decoded.results /\ ~Decoded.results[HbA1c].value.nan) =>
         LET entry == Decoded.results[HbA1c]
         IN  /\ "interpretation" \in DOMAIN entry
             /\ entry.interpretation =
                  IF BelowTenths(entry.value, 57) THEN "Normal"
                  ELSE IF BelowTenths(entry.value, 65) THEN "Prediabetes"
                  ELSE "Diabetes"
    /\ InterpretationOf(<<"5", ".", "6">>) \in {"none", "Normal"}
    /\ InterpretationOf(<<"5", ".", "7">>) \in {"none", "Prediabetes"}
    /\ InterpretationOf(<<"6">>) \in {"none", "Prediabetes"}
    /\ InterpretationOf(<<"6", ".", "5">>) \in {"none", "Diabetes"}
    /\ InterpretationOf(<<"7">>) \in {"none", "Diabetes"}

C4_Witness ==
  /\ Handled
  /\ input.R = HbA1cSection(<<"5", ".", "7">>)
  /\ Decoded.results[HbA1c].value = Decimal(57, 1)
  /\ Decoded.results[HbA1c].interpretation = "Prediabetes"

\* C5 as stated: an interpretation is carried only by an HbA1c entry whose
\* value is a number; a not-a-number HbA1c, any other analyte and a record
\* without HbA1c carry none.
C5_OnlyNumericHbA1c ==
  Handled =>
    \A key \in DOMAIN Decoded.results :
      "interpretation" \in DOMAIN Decoded.results[key] =>
        (key = HbA1c /\ ~Decoded.results[key].value.nan)

\* The sample type C6 states for the text of the fifth field: the label of
\* the code the text denotes, and "unknown" for every other text, the empty
\* one included.
ClaimedType(code) ==
  LET t == trim(code)
      d == DecimalPrefix(t)
  IN  IF t # <<>> /\ d.used = Len(t) /\ d.num.e = 0 /\ d.num.m \in 0..3
      THEN typeMap[d.num.m]
      ELSE "unknown"

\* The text after the fourth field of a sample section and before its last line break.
CodeIn(section) ==
  SubSeq(section, Len(Tag("I")) + Len(SampleHead) + 3, Len(section) - Len(EndTag("I")) - 1)

\* C6 as stated: sampleType is the label of the code in the fifth field and
\* "unknown" for any other text of it, for empty text and for a missing field.
C6_TypeOfCode ==
  Handled =>
    /\ input.I = SampleSection(CodeIn(input.I)) =>
         Decoded.sampleInfo.sampleType = ClaimedType(CodeIn(input.I))
    /\ input.I = ShortSampleSection => Decoded.sampleInfo.sampleType = "unknown"

\* The three sections with the usual text in place of each omitted one.
Completion(t) ==
  [n \in SectionNames |->
     IF t[n] # <<>> THEN t[n]
     ELSE CASE n = "M" -> UsualMachine [] n = "I" -> UsualSample [] n = "R" -> UsualResults]

\* The sub-record that section n is decoded to.
SubRecord(record, n) ==
  CASE n = "M" -> record.machineInfo
    [] n = "I" -> record.sampleInfo
    [] n = "R" -> record.results

\* C7: whatever sections are omitted, the decoder returns a record; the
\* sub-record of an omitted section is empty and that of a present section
\* is the one decoded when all three sections are present.
C7_OmittedSections ==
  Handled =>
    /\ notifications[1].event = "results"
    /\ \A n \in SectionNames :
         SubRecord(Decoded, n) =
           IF input[n] = <<>> THEN EmptyObject
           ELSE SubRecord(parseProtocol(Wire(Completion(input))), n)

C7_Witness ==
  /\ Handled
  /\ input.M # <<>>
  /\ input.I = <<>>
  /\ input.R # <<>>
  /\ Decoded.sampleInfo = EmptyObject
  /\ Decoded.machineInfo # EmptyObject
  /\ Decoded.results # EmptyObject

\* A value text of ValueTexts that starts with no decimal literal.
Unparsable(text) ==
  /\ text # <<>>
  /\ \/ text[1] = "z"
     \/ text[1] = "." /\ (Len(text) = 1 \/ text[2] \notin Digits)

\* The text after key| on the first line of a results section, up to its
\* last line break.
ValueIn(section, key) ==
  SubSeq(section, Len(Tag("R")) + Len(key) + 3, Len(section) - Len(EndTag("R")) - 1)

\* C8: a line key|value whose value is not a number yields an entry under
\* key with value not-a-number and unit %, in a "results" notification;
\* every entry of every decoded record has unit %.
C8_NotANumberKept ==
  Handled =>
    /\ notifications[1].event = "results"
    /\ \A key \in DOMAIN Decoded.results : Decoded.results[key].unit = "%"
    /\ \A key \in {HbA1c, OtherKey} :
         (Unparsable(ValueIn(input.R, key))
            /\ input.R = ResultsSection(Line(key, ValueIn(input.R, key)))) =>
           /\ key \in DOMAIN Decoded.results
           /\ Decoded.results[key].value = NaN
           /\ Decoded.results[key].unit = "%"

C8_Witness ==
  /\ Handled
  /\ input.R = ResultsSection(Line(OtherKey, <<"z">>))
  /\ OtherKey \in DOMAIN Decoded.results
  /\ Decoded.results[OtherKey] = [value |-> NaN, unit |-> "%"]

\* C13: the order of the sections within the envelope does not matter: the
\* message decodes to the machineInfo, sampleInfo and results that the same
\* sections give in the order M, I, R.
C13_AnyOrder ==
  Handled =>
    \A n \in SectionNames :
      SubRecord(Decoded, n) = SubRecord(parseProtocol(Wire(input)), n)

C13_Witness ==
  /\ Handled
  /\ stream = WireIn(input, <<"R", "I", "M">>)
  /\ \A n \in SectionNames : input[n] # <<>>
  /\ Decoded.machineInfo = [model |-> Str(<<"G", "Q">>), serialNumber |-> Str(<<"S", "N", "1">>)]
  /\ Decoded.sampleInfo # EmptyObject
  /\ HbA1c \in DOMAIN Decoded.results

\* The section without the white space that follows its opening tag and
\* that precedes its closing tag.
Bare(section) ==
  IF section = <<>> THEN <<>>
  ELSE SubSeq(section, 1, 3) \o trim(SubSeq(section, 4, Len(section) - 4))
         \o SubSeq(section, Len(section) - 3, Len(section))

\* C14: white space directly after an opening tag or directly before a
\* closing tag changes nothing: the message decodes to the machineInfo,
\* sampleInfo and results of the message whose sections are without it.
C14_PaddingTrimmed ==
  Handled =>
    \A n \in SectionNames :
      SubRecord(Decoded, n) =
        SubRecord(parseProtocol(Wire([k \in SectionNames |-> Bare(input[k])])), n)

(***************************************************************************)
(* Further properties of the framer (specification Spec)                   *)
(***************************************************************************)
\* C11: the decoder is called, and so its result or error is signalled,
\* when the framer is already IDLE with an empty buffer; whatever the call
\* brings, the framer is then as a fresh one, and a well-formed message that
\* follows, in the same chunk or a later one, is handed over and notified.
C11_DecodeApart ==
  \A i \in 1..Len(completed) :
    /\ completed[i].state = "IDLE"
    /\ completed[i].buffer = <<>>
    /\ pos = completed[i].at => (state = "IDLE" /\ messageBuffer = <<>>)
    /\ \A n \in MessagesAfter(completed[i].at) :
         pos >= completed[i].at + n =>
           /\ i < Len(completed)
           /\ completed[i + 1].at = completed[i].at + n
           /\ completed[i + 1].message =
                SubSeq(stream, completed[i].at + 1, completed[i].at + n)
           /\ notifications[i + 1].data.raw = completed[i + 1].message

C11_Witness ==
  /\ burst
  /\ Len(completed) >= 2
  /\ completed[2].at - completed[1].at \in MessagesAfter(completed[1].at)
  /\ completed[1].state = "IDLE"
  /\ completed[1].buffer = <<>>

\* The positions at which a message was handed over, and those at which
\* the overflow protection fired.
CompletedAt == {completed[i].at : i \in 1..Len(completed)}
OverflowAt == {o.at : o \in overflows}

\* The position the buffer counts from after q characters: the last hand-over
\* or overflow, or the start of the last start delimiter recognised.
Base(q) ==
  Max({0} \cup {p - Len(START) : p \in {r \in starts : r <= q}}
          \cup {p \in CompletedAt \cup OverflowAt : p <= q})

\* The length of the buffer in the step for character q, the character appended.
AppendedLength(q) == q - Base(q - 1)

\* C15 as stated: a step whose buffer, the character appended, is longer
\* than the ceiling ends IDLE with an empty buffer and emits nothing, and no
\* emitted message is longer than the ceiling.
C15_OverflowSilent ==
  /\ \A q \in 1..pos :
       AppendedLength(q) > BufferCeiling =>
         /\ q \notin CompletedAt
         /\ pos = q => (state = "IDLE" /\ messageBuffer = <<>>)
  /\ \A i \in 1..Len(completed) : Len(completed[i].message) <= BufferCeiling

\* C15 as amended: the delimiters are looked for first.  A step whose buffer,
\* the character appended, is longer than the ceiling and in which no
\* delimiter is recognised ends IDLE with an empty buffer and emits nothing;
\* one that recognises the start delimiter ends RECEIVING with the buffer
\* <SEND>; one that recognises the end delimiter emits the message and ends
\* IDLE with an empty buffer.  No emitted message is longer than the ceiling
\* plus one.
C15_OverflowAfterDelimiters ==
  /\ \A q \in 1..pos :
       AppendedLength(q) > BufferCeiling =>
         /\ q \in starts \cup CompletedAt \cup OverflowAt
         /\ q \in starts => (pos = q => (state = "RECEIVING" /\ messageBuffer = START))
         /\ q \notin starts => (pos = q => (state = "IDLE" /\ messageBuffer = <<>>))
         /\ q \in CompletedAt => AppendedLength(q) = BufferCeiling + 1
  /\ \A i \in 1..Len(completed) : Len(completed[i].message) <= BufferCeiling + 1

C15_Witness ==
  /\ \E q \in 1..pos : AppendedLength(q) > BufferCeiling /\ q \in starts
  /\ \E o \in RunawayOverflows : pos = o.at /\ AppendedLength(pos) > BufferCeiling
  /\ state = "IDLE"
  /\ messageBuffer = <<>>

\* C16: whatever the stream and the chunks, the buffer holds at most the
\* ceiling's number of characters after every character consumed, in
\* either state.
C16_BufferBounded == Len(messageBuffer) <= BufferCeiling

C16_Witness ==
  /\ Len(messageBuffer) = BufferCeiling
  /\ overflows # {}
  /\ pos > 2 * BufferCeiling

\* C17: while RECEIVING the buffer is <SEND> followed by every character
\* consumed since that start delimiter was recognised, and holds no
\* </SEND>; while IDLE the buffer holds no <SEND>; every emitted message
\* begins with <SEND>, a start delimiter that was recognised, ends with
\* </SEND> and holds </SEND> nowhere else.
C17_BufferAndShape ==
  /\ state = "RECEIVING" =>
       /\ starts # {}
       /\ messageBuffer = START \o SubSeq(stream, Max(starts) + 1, pos)
       /\ ~includes(messageBuffer, END)
  /\ state = "IDLE" => ~includes(messageBuffer, START)
  /\ \A i \in 1..Len(completed) :
       /\ IsWireMessage(completed[i].message)
       /\ From(i) + Len(START) - 1 \in starts

C17_Witness ==
  /\ state = "RECEIVING"
  /\ Len(messageBuffer) > Len(START)
  /\ completed # <<>>
  /\ Min(Occ(stream, START)) > 1

\* The framer was RECEIVING after q characters: a start delimiter had been
\* recognised and neither a hand-over nor an overflow had followed it.
ReceivingAfter(q) ==
  \E p \in starts :
    /\ p <= q
    /\ \A r \in CompletedAt \cup OverflowAt : r <= p \/ r > q

\* C18: every <SEND> of the stream that begins while the framer is IDLE is
\* recognised, whatever noise came before it and wherever the chunks end:
\* with its last character the framer is RECEIVING and the buffer is <SEND>.
C18_EveryStartTaken ==
  \A p \in Occ(stream, START) :
    (p + Len(START) - 1 <= pos /\ ~ReceivingAfter(p - 1)) =>
      /\ p + Len(START) - 1 \in starts
      /\ pos = p + Len(START) - 1 => (state = "RECEIVING" /\ messageBuffer = START)

\* s read as well-formed messages one after another, each of at most the
\* ceiling's number of characters, with fewer than the ceiling's number of
\* characters without a delimiter between them: whether s is such a text,
\* and its messages in order.
RECURSIVE RunOf(_)
RunOf(s) ==
  IF s = <<>> THEN [ok |-> TRUE, messages |-> <<>>]
  ELSE IF ~includes(s, START) THEN [ok |-> FALSE, messages |-> <<>>]
  ELSE LET p == Min(Occ(s, START))
           ends == {e \in Occ(s, END) : e > p}
           e == Min(ends)
           rest == RunOf(Rest(s, e + Len(END)))
       IN  IF ends = {} THEN [ok |-> FALSE, messages |-> <<>>]
           ELSE [ok |-> /\ p - 1 < BufferCeiling
                        /\ ~includes(SubSeq(s, 1, p - 1), END)
                        /\ e + Len(END) - p <= BufferCeiling
                        /\ rest.ok,
                 messages |-> <<SubSeq(s, p, e + Len(END) - 1)>> \o rest.messages]

\* C19: a stream of well-formed messages one after another, separated at
\* most by short runs without a delimiter, gives, when all of it has been
\* delivered in whatever chunks, exactly its messages, in order and
\* unchanged, and leaves the framer IDLE.
C19_AllMessages ==
  (Delivered /\ SubSeq(stream, 1, Len(START)) = START /\ RunOf(stream).ok) =>
    /\ Messages = RunOf(stream).messages
    /\ state = "IDLE"

\* The start delimiter in force after q characters, by its last character.
StartInForce(q) == Max({r \in starts : r <= q})

\* C20: a <SEND> that arrives whole while a message is under way does not
\* start over: it is not recognised as a start, the framer stays RECEIVING
\* with everything since the first <SEND> in the buffer, and the message
\* handed over at the next </SEND> begins at the first <SEND> and holds the
\* inner one.
C20_NoRestart ==
  \A p \in Occ(stream, START) :
    LET last == p + Len(START) - 1
    IN  (last <= pos /\ ReceivingAfter(p - 1) /\ ReceivingAfter(last)) =>
          LET first == StartInForce(p - 1)
          IN  /\ last \notin starts
              /\ pos = last =>
                   /\ state = "RECEIVING"
                   /\ messageBuffer = START \o SubSeq(stream, first + 1, pos)
              /\ \A i \in 1..Len(completed) :
                   (completed[i].at > last /\ StartInForce(completed[i].at) = first) =>
                     /\ From(i) = first - Len(START) + 1
                     /\ p - From(i) + 1 \in Occ(completed[i].message, START)
                     /\ completed[i].message = SubSeq(stream, From(i), completed[i].at)

C20_Witness ==
  \E i \in 1..Len(completed) :
    \E p \in Occ(stream, START) :
      /\ From(i) < p
      /\ p < completed[i].at
      /\ ReceivingAfter(p - 1)
      /\ p - From(i) + 1 \in Occ(completed[i].message, START)

(***************************************************************************)
(* Properties of the transport's events (specification SpecLifecycle)      *)
(***************************************************************************)
\* The instance before any byte and any event.
FreshInstance ==
  [state |-> "IDLE", messageBuffer |-> <<>>, consumed |-> 0, notifications |-> <<>>,
   completed |-> <<>>, starts |-> {}, overflows |-> {}, relayed |-> {}]

\* C12: the opening, the errors and the closing of the port are passed on
\* and nothing else: whatever events came between the bytes, the state, the
\* buffer and the messages handed over are those the bytes delivered so far
\* give by themselves, so text held at an event is completed by later bytes.
C12_RelayedOnly ==
  LET alone == forOf(FreshInstance, SubSeq(stream, 1, pos))
  IN  /\ state = alone.state
      /\ messageBuffer = alone.messageBuffer
      /\ completed = alone.completed
      /\ Len(notifications) = Len(completed)

C12_Witness ==
  /\ [event |-> "disconnected", held |-> TRUE] \in relayed
  /\ [event |-> "error", held |-> TRUE] \in relayed
  /\ [event |-> "connected", held |-> TRUE] \in relayed
  /\ Delivered
  /\ Messages = <<stream>>

====
